---- MODULE Spec2Model ----
(***************************************************************************)
(* emjtxt: the width-aware text engine (getVisibleWidth, padToWidth,       *)
(* visibleSubstring) and the marquee animator (runAnimation,               *)
(* runSingleCycle) of src/src/animation.ts.                                *)
(*                                                                         *)
(* A string is modelled as the sequence of its code points, which is what  *)
(* `for (const char of str)` and `[...str]` iterate over.                  *)
(***************************************************************************)
EXTENDS Integers, Sequences, FiniteSets

VARIABLES
    str,            \* text engine: the string argument of the call
    call,           \* text engine: the call made on str, with its arguments and result
    lines,          \* animator: bannerText.split('\n')
    terminalWidth,  \* animator: config.terminalWidth
    variant,        \* animator: which function runs ("none" before the call)
    pc,             \* animator: control position of the run
    frame,          \* animator: the loop's frame counter
    i,              \* animator: lines of the current frame written so far (the loop's i)
    displayLine,    \* animator: the display line last written to the terminal
    repositioned,   \* animator: the current frame's cursor repositioning was written
    cursorHidden,   \* terminal: HIDE_CURSOR written and SHOW_CURSOR not written since
    cleanups,       \* animator: how many times the cleanup writes were executed
    handlers,       \* process: SIGINT/SIGTERM listeners are registered
    signal,         \* process: "none", or the control position at which a signal arrived
    failed,         \* animator: a write threw and the failure is propagating
    ticks,          \* animator: frame advances executed so far
    rendered,       \* animator: the frames whose rendering completed, in order
    cursorRow,      \* terminal: the cursor's row, counted from the banner's first row
    frameOut,       \* terminal: what the current tick has written, in order
    save,           \* output: the state of one saveToFile call and of the file system
    slack,          \* slack: the state of one toSlackFormat call
    unique          \* output: the state of one getUniqueFilename call

textVars == <<str, call>>
animVars == <<lines, terminalWidth, variant, pc, frame, i, displayLine, repositioned,
              cursorHidden, cleanups, handlers, signal, failed, ticks, rendered,
              cursorRow, frameOut>>
vars == <<str, call, lines, terminalWidth, variant, pc, frame, i, displayLine,
          repositioned, cursorHidden, cleanups, handlers, signal, failed, ticks, rendered,
          cursorRow, frameOut, save, slack, unique>>
ioVars == <<save, slack, unique>>

----------------------------------------------------------------------------
(* Bounds of the model *)

MaxLen == 3         \* text engine: longest string, in code points
MaxArg == 7         \* text engine: largest start / length / targetWidth argument
MaxHeight == 2      \* animator: most banner lines
MaxTermWidth == 3   \* animator: widest terminal
MaxCycles == 2      \* animator: scroll cycles the continuous loop is followed for

MaxNameLen == 7     \* output: longest filename argument, in characters
MaxSlackLines == 3  \* slack: most lines of a banner

(* Program constants *)

EmojiThreshold == 127744    \* 0x1F300
SPACE == 32                 \* ' '
SLACK_TEXT_LIMIT == 3000    \* slack.ts: characters per Slack text block
SafetyLimit == 1000         \* output.ts: getUniqueFilename's `counter > 1000`

(* Code points the inputs are drawn from: ' ', 'A', U+1F300 and U+1F525 *)
CodePoints == {32, 65, 127744, 128293}

RECURSIVE StringsUpTo(_)
StringsUpTo(n) ==
    IF n = 0 THEN {<<>>}
    ELSE LET shorter == StringsUpTo(n - 1)
         IN  shorter \cup {Append(s, c) : s \in {t \in shorter : Len(t) = n - 1}, c \in CodePoints}

Strings == StringsUpTo(MaxLen)

PadChars == {<<32>>, <<128293>>, <<65, 65>>}

----------------------------------------------------------------------------
(* The width-aware text engine *)

RECURSIVE Repeat(_, _)
Repeat(s, count) == IF count <= 0 THEN <<>> ELSE s \o Repeat(s, count - 1)

CharWidth(code) == IF code > EmojiThreshold THEN 2 ELSE 1

RECURSIVE getVisibleWidth(_)
getVisibleWidth(s) ==
    IF s = <<>> THEN 0 ELSE CharWidth(Head(s)) + getVisibleWidth(Tail(s))

\* padToWidth cutting a string that is too wide instead of returning it
padToWidthTruncating(s, targetWidth, padChar) ==
    LET currentWidth == getVisibleWidth(s)
    IN  IF currentWidth > targetWidth
        THEN SubSeq(s, 1, Len(s) - 1)
        ELSE s \o Repeat(padChar, targetWidth - currentWidth)
padToWidth(s, targetWidth, padChar) ==
    LET currentWidth == getVisibleWidth(s)
    IN  IF currentWidth >= targetWidth
        THEN s
        ELSE s \o Repeat(padChar, targetWidth - currentWidth)

\* visibleSubstring's loop with the "collected enough" test off by one (> for >=)
RECURSIVE visibleSubstringLoopGt(_, _, _, _, _, _, _)
visibleSubstringLoopGt(chars, k, currentPos, result, resultWidth, start, length) ==
    IF k > Len(chars) THEN result
    ELSE LET char == chars[k]
             charWidth == getVisibleWidth(<<char>>)
         IN  IF currentPos + charWidth <= start
             THEN visibleSubstringLoopGt(chars, k + 1, currentPos + charWidth,
                                         result, resultWidth, start, length)
             ELSE IF resultWidth > length
             THEN result
             ELSE visibleSubstringLoopGt(chars, k + 1, currentPos + charWidth,
                                         Append(result, char), resultWidth + charWidth,
                                         start, length)

RECURSIVE visibleSubstringLoop(_, _, _, _, _, _, _)
visibleSubstringLoop(chars, k, currentPos, result, resultWidth, start, length) ==
    IF k > Len(chars) THEN result
    ELSE LET char == chars[k]
             charWidth == getVisibleWidth(<<char>>)
         IN  IF currentPos + charWidth <= start
             THEN visibleSubstringLoop(chars, k + 1, currentPos + charWidth,
                                       result, resultWidth, start, length)
             ELSE IF resultWidth >= length
             THEN result
             ELSE visibleSubstringLoop(chars, k + 1, currentPos + charWidth,
                                       Append(result, char), resultWidth + charWidth,
                                       start, length)

visibleSubstring(s, start, length) ==
    visibleSubstringLoop(s, 1, 0, <<>>, 0, start, length)

----------------------------------------------------------------------------
(* Calls of the text engine on a string drawn from Strings *)

NoCall == [fn |-> "none"]

\* no call of saveToFile, toSlackFormat, getUniqueFilename is in progress
NoSave == [pc |-> "unused"]
NoSlack == [pc |-> "unused"]
NoUnique == [pc |-> "unused"]

InitText ==
    /\ str \in Strings
    /\ call = NoCall
    /\ lines = <<>> /\ terminalWidth = 0 /\ variant = "none" /\ pc = "unused"
    /\ frame = 0 /\ i = 0 /\ displayLine = <<>> /\ repositioned = FALSE
    /\ cursorHidden = FALSE /\ cleanups = 0 /\ handlers = FALSE /\ signal = "none"
    /\ failed = FALSE /\ ticks = 0 /\ rendered = <<>>
    /\ cursorRow = 0 /\ frameOut = <<>>
    /\ save = NoSave /\ slack = NoSlack /\ unique = NoUnique

CallGetVisibleWidth ==
    /\ call = NoCall
    /\ call' = [fn |-> "getVisibleWidth", result |-> getVisibleWidth(str)]
    /\ UNCHANGED <<str, animVars, ioVars>>

CallPadToWidth ==
    /\ call = NoCall
    /\ \E targetWidth \in 0..MaxArg, padChar \in PadChars :
          call' = [fn |-> "padToWidth", targetWidth |-> targetWidth, padChar |-> padChar,
                   result |-> padToWidth(str, targetWidth, padChar)]
    /\ UNCHANGED <<str, animVars, ioVars>>

CallVisibleSubstring ==
    /\ call = NoCall
    /\ \E start \in 0..MaxArg, length \in 0..MaxArg :
          call' = [fn |-> "visibleSubstring", start |-> start, length |-> length,
                   result |-> visibleSubstring(str, start, length)]
    /\ UNCHANGED <<str, animVars, ioVars>>

\* the two calls of the substring-composition property
CallSplit ==
    /\ call = NoCall
    /\ \E start \in 0..getVisibleWidth(str) :
          call' = [fn |-> "split", start |-> start,
                   head |-> visibleSubstring(str, 0, start),
                   tail |-> visibleSubstring(str, start, getVisibleWidth(str) - start)]
    /\ UNCHANGED <<str, animVars, ioVars>>

NextText ==
    \/ CallGetVisibleWidth
    \/ CallPadToWidth
    \/ CallVisibleSubstring
    \/ CallSplit

TextSpec == InitText /\ [][NextText]_vars

----------------------------------------------------------------------------
(* Properties of the text engine, checked under TextSpec *)

Max(a, b) == IF a >= b THEN a ELSE b

IsPrefix(s, t) == Len(s) <= Len(t) /\ SubSeq(t, 1, Len(s)) = s

\* the visual position at which glyph k of s starts
GlyphStart(s, k) == getVisibleWidth(SubSeq(s, 1, k - 1))

\* some glyph of s starts before visual position p and ends after it
Straddles(s, p) ==
    \E k \in 1..Len(s) :
        GlyphStart(s, k) < p /\ p < GlyphStart(s, k) + getVisibleWidth(<<s[k]>>)

HasWide(s) == \E k \in 1..Len(s) : getVisibleWidth(<<s[k]>>) = 2
HasNarrow(s) == \E k \in 1..Len(s) : getVisibleWidth(<<s[k]>>) = 1

\* C7: splitting s at a visual position start <= visualWidth(s) that no glyph
\* straddles, visibleSubstring(s, 0, start) followed by
\* visibleSubstring(s, start, visualWidth(s) - start) is s itself.
C7_SubstringComposition ==
    (call.fn = "split" /\ ~Straddles(str, call.start))
        => call.head \o call.tail = str

C7_Witness ==
    /\ call.fn = "split"
    /\ 0 < call.start /\ call.start < getVisibleWidth(str)
    /\ ~Straddles(str, call.start)
    /\ HasWide(str) /\ HasNarrow(str)
    /\ call.head # <<>> /\ call.tail # <<>>

\* the width the claim C8 gives a string: 2 for each code point at or above the
\* threshold, 1 for each other one
RECURSIVE WidthAtOrAboveThreshold(_)
WidthAtOrAboveThreshold(s) ==
    IF s = <<>> THEN 0
    ELSE (IF Head(s) >= EmojiThreshold THEN 2 ELSE 1) + WidthAtOrAboveThreshold(Tail(s))

\* C8: getVisibleWidth(s) is the sum of the code points' widths, a code point
\* counting 2 if and only if it is at or above the threshold 0x1F300 (the
\* threshold code point itself counts 2), and 1 otherwise.
C8_WidthAtOrAboveThreshold ==
    call.fn = "getVisibleWidth" => call.result = WidthAtOrAboveThreshold(str)

\* C9: padToWidth returns s unchanged when it is at least targetWidth wide, and
\* otherwise s followed by exactly targetWidth - width copies of padChar; s is
\* always a prefix of the result, and with the single-space padChar the result
\* is max(width, targetWidth) wide.
C9_PadToWidth ==
    call.fn = "padToWidth" =>
        LET w == getVisibleWidth(str)
            t == call.targetWidth
            p == call.padChar
            r == call.result
        IN  /\ IsPrefix(str, r)
            /\ w >= t => r = str
            /\ w < t =>
                /\ Len(r) = Len(str) + (t - w) * Len(p)
                /\ \A j \in 1..(Len(r) - Len(str)) :
                       r[Len(str) + j] = p[((j - 1) % Len(p)) + 1]
            /\ p = <<SPACE>> => getVisibleWidth(r) = Max(w, t)

C9_Witness ==
    /\ call.fn = "padToWidth"
    /\ HasWide(str)
    /\ call.targetWidth > getVisibleWidth(str) + 1
    /\ Len(call.padChar) = 2
    /\ Len(call.result) = Len(str) + 2 * (call.targetWidth - getVisibleWidth(str))

\* C10: visibleSubstring returns the empty string whenever length = 0, and
\* whenever start is at or beyond the visual width of s (s empty included).
C10_EmptySubstring ==
    (/\ call.fn = "visibleSubstring"
     /\ \/ call.length = 0
        \/ call.start >= getVisibleWidth(str))
        => call.result = <<>>

C10_Witness ==
    /\ call.fn = "visibleSubstring"
    /\ call.length = 0
    /\ call.start < getVisibleWidth(str)
    /\ HasWide(str)
    /\ call.result = <<>>

----------------------------------------------------------------------------
(* The marquee animator: runAnimation and runSingleCycle *)

\* lines a banner is made of: empty, narrow, wide and mixed
BannerLines == {<<>>, <<65>>, <<128293>>, <<128293, 65>>}

\* bannerText.split('\n') always yields at least one line
Banners == UNION {[1..h -> BannerLines] : h \in 1..MaxHeight}

SetMax(S) == CHOOSE x \in S : \A y \in S : y <= x

bannerHeight == Len(lines)

maxBannerWidth == SetMax({getVisibleWidth(lines[k]) : k \in 1..Len(lines)})

paddedLines == [k \in 1..Len(lines) |-> padToWidth(lines[k], maxBannerWidth, <<SPACE>>)]

totalFrames == terminalWidth + maxBannerWidth

\* the display line of one banner line at one scroll offset
DisplayLine(line, offset) ==
    LET assembled ==
            IF offset >= 0
            THEN Repeat(<<SPACE>>, offset) \o visibleSubstring(line, 0, terminalWidth - offset)
            ELSE visibleSubstring(line, -offset, terminalWidth)
    IN  padToWidth(assembled, terminalWidth, <<SPACE>>)

\* runAnimation's frame advance with the modulus off by one
AdvanceFramePastEnd(f) == (f + 1) % (totalFrames + 1)
\* runAnimation: frame = (frame + 1) % totalFrames
AdvanceFrame(f) == (f + 1) % totalFrames

\* runSingleCycle's loop test off by one (<= for <)
LoopContinuesInclusive(f) == f <= totalFrames
\* runSingleCycle: the for loop's test, frame < totalFrames
LoopContinues(f) == f < totalFrames

\* a listener that could run wherever the run is, also in the middle of a frame
HandlerMayRunAnywhere(at) == at \in {"render", "reposition", "sleep", "thrown"}
\* A listener registered with process.on runs from the event loop, so only
\* while no code of the run is executing: while the loop is suspended in
\* `await sleep(speed)`, or after the run's promise has settled.
HandlerMayRun(at) == at \in {"sleep", "thrown", "returned"}

\* what a tick writes: escape sequences, display lines and newlines
Out(op, n) == [op |-> op, n |-> n]

\* Rows the cursor goes down while a line is printed from column 0 on a
\* terminal of terminalWidth columns that wraps: a glyph that does not fit in
\* what is left of a row already begun goes to the next row. A line that
\* fills the row exactly leaves the cursor on it.
RECURSIVE WrapRowsFrom(_, _)
WrapRowsFrom(s, col) ==
    IF s = <<>> THEN 0
    ELSE LET w == getVisibleWidth(<<Head(s)>>)
         IN  IF col > 0 /\ col + w > terminalWidth
             THEN 1 + WrapRowsFrom(Tail(s), w)
             ELSE WrapRowsFrom(Tail(s), col + w)

WrapRows(s) == WrapRowsFrom(s, 0)

Running == pc \in {"render", "reposition", "sleep", "finally"}
Alive == Running \/ pc \in {"thrown", "returned"}

Init ==
    /\ str = <<>> /\ call = NoCall
    /\ lines \in Banners
    /\ terminalWidth \in 1..MaxTermWidth
    /\ variant = "none" /\ pc = "idle"
    /\ frame = 0 /\ i = 0 /\ displayLine = <<>> /\ repositioned = FALSE
    /\ cursorHidden = FALSE /\ cleanups = 0 /\ handlers = FALSE /\ signal = "none"
    /\ failed = FALSE /\ ticks = 0 /\ rendered = <<>>
    /\ cursorRow = 0 /\ frameOut = <<>>
    /\ save = NoSave /\ slack = NoSlack /\ unique = NoUnique

\* runAnimation up to the first frame: hide the cursor, register the listeners,
\* frame = 0
StartAnimation ==
    /\ pc = "idle"
    /\ variant' = "runAnimation"
    /\ cursorHidden' = TRUE
    /\ handlers' = TRUE
    /\ frame' = 0 /\ i' = 0
    /\ pc' = "render"
    /\ cursorRow' = 0 /\ frameOut' = <<>>
    /\ UNCHANGED <<textVars, ioVars, lines, terminalWidth, displayLine, repositioned, cleanups,
                   signal, failed, ticks, rendered>>

\* runSingleCycle up to the first frame: hide the cursor, frame = 0 and the
\* loop's first test; no listener is registered
StartSingleCycle ==
    /\ pc = "idle"
    /\ variant' = "runSingleCycle"
    /\ cursorHidden' = TRUE
    /\ frame' = 0 /\ i' = 0
    /\ pc' = IF LoopContinues(0) THEN "render" ELSE "finally"
    /\ cursorRow' = 0 /\ frameOut' = <<>>
    /\ UNCHANGED <<textVars, ioVars, lines, terminalWidth, displayLine, repositioned, cleanups,
                   handlers, signal, failed, ticks, rendered>>

\* one iteration of the inner loop: line i of the frame is assembled, padded and written
WriteLine ==
    /\ pc = "render"
    /\ i < bannerHeight
    /\ displayLine' = DisplayLine(paddedLines[i + 1], terminalWidth - frame)
    /\ frameOut' = frameOut \o <<Out("CLEAR_LINE", 0), Out("LINE", i)>>
                            \o (IF i < bannerHeight - 1 THEN <<Out("NEWLINE", 1)>> ELSE <<>>)
    /\ cursorRow' = cursorRow + WrapRows(displayLine')
                              + (IF i < bannerHeight - 1 THEN 1 ELSE 0)
    /\ i' = i + 1
    /\ pc' = IF i + 1 < bannerHeight THEN "render" ELSE "reposition"
    /\ UNCHANGED <<textVars, ioVars, lines, terminalWidth, variant, frame, repositioned,
                   cursorHidden, cleanups, handlers, signal, failed, ticks, rendered>>

\* the cursor goes back to the first row of the banner and the loop reaches
\* `await sleep(speed)`
Reposition ==
    /\ pc = "reposition"
    /\ repositioned' = TRUE
    /\ frameOut' = frameOut
                    \o (IF bannerHeight > 1 THEN <<Out("MOVE_UP", bannerHeight - 1)>> ELSE <<>>)
                    \o <<Out("CURSOR_TO_START", 0)>>
    /\ cursorRow' = IF bannerHeight > 1 THEN cursorRow - (bannerHeight - 1) ELSE cursorRow
    /\ rendered' = Append(rendered, frame)
    /\ pc' = "sleep"
    /\ UNCHANGED <<textVars, ioVars, lines, terminalWidth, variant, frame, i, displayLine,
                   cursorHidden, cleanups, handlers, signal, failed, ticks>>

\* a write of the frame throws: control leaves the try block for the finally
\* block. (The failure modelled is one of a frame's writes; the writes of the
\* cleanup itself are taken to succeed.)
WriteThrows ==
    /\ pc \in {"render", "reposition"}
    /\ failed' = TRUE
    /\ pc' = "finally"
    /\ UNCHANGED <<cursorRow, frameOut>>
    /\ UNCHANGED <<textVars, ioVars, lines, terminalWidth, variant, frame, i, displayLine,
                   repositioned, cursorHidden, cleanups, handlers, signal, ticks, rendered>>

\* runAnimation: the timer fires, the frame advances and the next frame begins
WakeAnimation ==
    /\ pc = "sleep"
    /\ variant = "runAnimation"
    /\ ticks < MaxCycles * totalFrames
    /\ frame' = AdvanceFrame(frame)
    /\ ticks' = ticks + 1
    /\ i' = 0 /\ repositioned' = FALSE /\ frameOut' = <<>>
    /\ UNCHANGED cursorRow
    /\ pc' = "render"
    /\ UNCHANGED <<textVars, ioVars, lines, terminalWidth, variant, displayLine, cursorHidden,
                   cleanups, handlers, signal, failed, rendered>>

\* runSingleCycle: the timer fires, frame++ and the loop's test
WakeSingleCycle ==
    /\ pc = "sleep"
    /\ variant = "runSingleCycle"
    /\ frame' = frame + 1
    /\ ticks' = ticks + 1
    /\ IF LoopContinues(frame + 1)
       THEN i' = 0 /\ repositioned' = FALSE /\ frameOut' = <<>> /\ pc' = "render"
       ELSE pc' = "finally" /\ UNCHANGED <<i, repositioned, frameOut>>
    /\ UNCHANGED cursorRow
    /\ UNCHANGED <<textVars, ioVars, lines, terminalWidth, variant, displayLine, cursorHidden,
                   cleanups, handlers, signal, failed, rendered>>

\* the finally block: show the cursor and write the trailing newline(s) (one
\* in runAnimation's cleanup, bannerHeight of them in runSingleCycle); the
\* run then returns, or rethrows the failure that brought it here
Finally ==
    /\ pc = "finally"
    /\ cursorHidden' = FALSE
    /\ cleanups' = cleanups + 1
    /\ cursorRow' = cursorRow + (IF variant = "runSingleCycle" THEN bannerHeight ELSE 1)
    /\ UNCHANGED frameOut
    /\ pc' = IF failed THEN "thrown" ELSE "returned"
    /\ UNCHANGED <<textVars, ioVars, lines, terminalWidth, variant, frame, i, displayLine,
                   repositioned, handlers, signal, failed, ticks, rendered>>

\* SIGINT or SIGTERM reaches the process and a listener is registered: the
\* signal waits for the event loop. runAnimation never removes its listeners,
\* so this also holds after its promise has settled, for as long as the caller
\* keeps the process alive.
SignalArrives ==
    /\ Alive
    /\ handlers
    /\ signal = "none"
    /\ signal' = pc
    /\ UNCHANGED <<cursorRow, frameOut>>
    /\ UNCHANGED <<textVars, ioVars, lines, terminalWidth, variant, pc, frame, i, displayLine,
                   repositioned, cursorHidden, cleanups, handlers, failed, ticks, rendered>>

\* SIGINT or SIGTERM reaches the process and no listener is registered: the
\* signal's default action ends the process at once
SignalKills ==
    /\ Alive
    /\ ~handlers
    /\ signal' = pc
    /\ pc' = "killed"
    /\ UNCHANGED <<cursorRow, frameOut>>
    /\ UNCHANGED <<textVars, ioVars, lines, terminalWidth, variant, frame, i, displayLine,
                   repositioned, cursorHidden, cleanups, handlers, failed, ticks, rendered>>

\* the listener: cleanup(), then process.exit(0)
HandleSignal ==
    /\ handlers
    /\ signal # "none"
    /\ Alive
    /\ HandlerMayRun(pc)
    /\ cursorHidden' = FALSE
    /\ cleanups' = cleanups + 1
    /\ cursorRow' = cursorRow + 1
    /\ UNCHANGED frameOut
    /\ pc' = "exited"
    /\ UNCHANGED <<textVars, ioVars, lines, terminalWidth, variant, frame, i, displayLine,
                   repositioned, handlers, signal, failed, ticks, rendered>>

Next ==
    \/ StartAnimation
    \/ StartSingleCycle
    \/ WriteLine
    \/ Reposition
    \/ WriteThrows
    \/ WakeAnimation
    \/ WakeSingleCycle
    \/ Finally
    \/ SignalArrives
    \/ SignalKills
    \/ HandleSignal

Spec == Init /\ [][Next]_vars

\* runSingleCycle alone
NextSingleCycle ==
    \/ StartSingleCycle
    \/ WriteLine
    \/ Reposition
    \/ WriteThrows
    \/ WakeSingleCycle
    \/ Finally
    \/ SignalKills

\* The run's own steps are taken when they can be: synchronous code runs to
\* completion and the timer of `await sleep(speed)` fires.
FairSingleCycleSpec ==
    /\ Init /\ [][NextSingleCycle]_vars
    /\ WF_vars(WriteLine)
    /\ WF_vars(Reposition)
    /\ WF_vars(WakeSingleCycle)
    /\ WF_vars(Finally)

----------------------------------------------------------------------------
(* Properties of the animator, checked under Spec and FairSingleCycleSpec *)

\* the run has given up control: returned, thrown, or the process has ended
Relinquished == pc \in {"returned", "thrown", "exited", "killed"}

LineWritten == i > 0 \/ ticks > 0 \/ rendered # <<>>

SomeWideLine == \E k \in 1..Len(lines) : HasWide(lines[k])

\* C1: in both variants, once the cursor is hidden, no run ends (returns,
\* throws or exits the process) with the cursor still hidden: normal loop
\* end, SIGINT/SIGTERM while running, and a failure thrown by a write all have
\* the show-cursor sequence written first.
C1_CursorRestoredOnEveryExit ==
    Relinquished => ~cursorHidden

\* C2: for one run of runAnimation the cleanup executes exactly once whichever
\* exit path is taken: never zero times once the run has ended, never twice,
\* also when a signal arrives after the finally block has run.
C2_CleanupExactlyOnce ==
    variant = "runAnimation" =>
        /\ cleanups <= 1
        /\ Relinquished => cleanups = 1

\* C3: every display line written, in either variant, at every offset and for
\* banner lines with width-2 glyphs too, is exactly terminalWidth wide as
\* getVisibleWidth measures it.
C3_DisplayLineWidth ==
    LineWritten => getVisibleWidth(displayLine) = terminalWidth

\* C4: runSingleCycle (terminalWidth >= 1) renders frames 0 .. totalFrames-1,
\* each once and in increasing order, then stops on its own: a run that no
\* thrown write and no signal ends does return, and when it has returned it has
\* rendered exactly totalFrames frames and the cursor is shown.
C4_SingleCycleRendersTotalFrames ==
    /\ [](variant = "runSingleCycle" =>
            /\ Len(rendered) <= totalFrames
            /\ \A k \in 1..Len(rendered) : rendered[k] = k - 1
            /\ pc = "returned" =>
                  /\ Len(rendered) = totalFrames
                  /\ ticks = totalFrames
                  /\ ~cursorHidden)
    /\ (variant = "runSingleCycle") ~> (pc \in {"returned", "thrown", "killed"})

C4_Witness ==
    /\ variant = "runSingleCycle"
    /\ pc = "returned"
    /\ bannerHeight = 2
    /\ SomeWideLine
    /\ Len(rendered) = terminalWidth + maxBannerWidth
    /\ Len(rendered) >= 4
    /\ ~cursorHidden

\* C5: in runAnimation the frame counter is always in 0 .. totalFrames-1 and
\* equals the number of ticks modulo totalFrames (so it is 0 again after
\* exactly totalFrames ticks), and every display line written at frame 0 is
\* exactly terminalWidth spaces.
C5_FrameWrapsAndStartsOffScreen ==
    variant = "runAnimation" =>
        /\ 0 <= frame /\ frame < totalFrames
        /\ frame = ticks % totalFrames
        /\ (frame = 0 /\ i > 0) => displayLine = [k \in 1..terminalWidth |-> SPACE]

C5_Witness ==
    /\ variant = "runAnimation"
    /\ ticks = totalFrames
    /\ frame = 0
    /\ bannerHeight = 2 /\ i = 2
    /\ SomeWideLine
    /\ displayLine = [k \in 1..terminalWidth |-> SPACE]

\* C6: in runAnimation a signal is never handled in the middle of a tick: when
\* the listener has run (cleanup and exit) and no write had failed, all lines
\* of the current frame and the cursor repositioning have been written, also
\* when the signal arrived during the frame's rendering.
C6_NoMidTickCancellation ==
    (variant = "runAnimation" /\ pc = "exited" /\ ~failed)
        => (i = bannerHeight /\ repositioned)

C6_Witness ==
    /\ variant = "runAnimation"
    /\ pc = "exited"
    /\ ~failed
    /\ signal = "render"
    /\ bannerHeight = 2
    /\ i = bannerHeight /\ repositioned

\* what the claim C12 has a tick of a banner of h lines write: h display
\* lines, each after a clear-line sequence, h-1 newlines between them, then a
\* cursor-up of h-1 rows (none when h = 1) and the move to the column start
RECURSIVE TickLines(_, _)
TickLines(k, h) ==
    IF k >= h THEN <<>>
    ELSE <<Out("CLEAR_LINE", 0), Out("LINE", k)>>
         \o (IF k < h - 1 THEN <<Out("NEWLINE", 1)>> ELSE <<>>)
         \o TickLines(k + 1, h)

TickOut(h) ==
    TickLines(0, h)
    \o (IF h > 1 THEN <<Out("MOVE_UP", h - 1)>> ELSE <<>>)
    \o <<Out("CURSOR_TO_START", 0)>>

\* C12: after each tick the cursor is back on the first row of the banner at
\* the column start: the tick wrote h display lines, each after a clear-line
\* sequence, with h-1 newlines between them, then moved the cursor up h-1 rows
\* (no move when h = 1), and the net vertical displacement is zero.
C12_CursorBackOnFirstRow ==
    pc = "sleep" =>
        /\ frameOut = TickOut(bannerHeight)
        /\ cursorRow = 0

\* the sequences a tick writes are the ones C12 lists (the part of C12 that holds)
C12_TickOutputShape ==
    pc = "sleep" => frameOut = TickOut(bannerHeight)

----------------------------------------------------------------------------
(* saveToFile of src/src/output.ts. A filename or path is the sequence of  *)
(* its characters.                                                         *)

\* the text engine and the animator are not in use
IdleTextAndAnimator ==
    /\ str = <<>> /\ call = NoCall
    /\ lines = <<>> /\ terminalWidth = 0 /\ variant = "none" /\ pc = "unused"
    /\ frame = 0 /\ i = 0 /\ displayLine = <<>> /\ repositioned = FALSE
    /\ cursorHidden = FALSE /\ cleanups = 0 /\ handlers = FALSE /\ signal = "none"
    /\ failed = FALSE /\ ticks = 0 /\ rendered = <<>>
    /\ cursorRow = 0 /\ frameOut = <<>>

\* characters filenames are made of: '.', '/', one of the characters the
\* second replace removes, a letter and a blank
FilenameChars == {".", "/", "<", "o", " "}

RECURSIVE NamesUpTo(_)
NamesUpTo(n) ==
    IF n = 0 THEN {<<>>}
    ELSE LET shorter == NamesUpTo(n - 1)
         IN  shorter \cup {Append(s, c) : s \in {u \in shorter : Len(u) = n - 1},
                                          c \in FilenameChars}

Filenames == NamesUpTo(MaxNameLen)

\* the output directory: /o
OutputDirs == {<<"/", "o">>}

\* .replace(/\.\./g, ''): every non-overlapping "..", found left to right, is removed
RECURSIVE RemoveDotDot(_)
RemoveDotDot(s) ==
    IF Len(s) = 0 THEN <<>>
    ELSE IF Len(s) >= 2 /\ s[1] = "." /\ s[2] = "."
    THEN RemoveDotDot(SubSeq(s, 3, Len(s)))
    ELSE <<s[1]>> \o RemoveDotDot(Tail(s))

\* .replace(/[<>:"|?*]/g, '')
RemoveDangerous(s) == SelectSeq(s, LAMBDA c : c \notin {"<", ">", ":", "\"", "|", "?", "*"})

\* .replace(/^\.+/, '')
RECURSIVE StripLeadingDots(_)
StripLeadingDots(s) ==
    IF s # <<>> /\ Head(s) = "." THEN StripLeadingDots(Tail(s)) ELSE s

RECURSIVE TrimStart(_)
TrimStart(s) == IF s # <<>> /\ Head(s) = " " THEN TrimStart(Tail(s)) ELSE s

RECURSIVE TrimEnd(_)
TrimEnd(s) ==
    IF s # <<>> /\ s[Len(s)] = " " THEN TrimEnd(SubSeq(s, 1, Len(s) - 1)) ELSE s

\* .trim()
Trim(s) == TrimEnd(TrimStart(s))

sanitizeFilename(filename) ==
    Trim(StripLeadingDots(RemoveDangerous(RemoveDotDot(filename))))

\* the segments of a path between its '/' characters
RECURSIVE SplitPath(_, _)
SplitPath(s, current) ==
    IF s = <<>> THEN <<current>>
    ELSE IF Head(s) = "/" THEN <<current>> \o SplitPath(Tail(s), <<>>)
    ELSE SplitPath(Tail(s), Append(current, Head(s)))

\* the segments of an absolute path normalised: empty and "." segments are
\* dropped and ".." removes the segment before it (none at the root)
RECURSIVE NormalizeSegments(_, _)
NormalizeSegments(segments, done) ==
    IF segments = <<>> THEN done
    ELSE LET seg == Head(segments)
         IN  IF seg = <<>> \/ seg = <<".">>
             THEN NormalizeSegments(Tail(segments), done)
             ELSE IF seg = <<".", ".">>
             THEN NormalizeSegments(Tail(segments),
                                    IF done = <<>> THEN <<>>
                                    ELSE SubSeq(done, 1, Len(done) - 1))
             ELSE NormalizeSegments(Tail(segments), Append(done, seg))

RECURSIVE JoinSegments(_)
JoinSegments(segments) ==
    IF segments = <<>> THEN <<>>
    ELSE <<"/">> \o Head(segments) \o JoinSegments(Tail(segments))

PathOf(segments) == IF segments = <<>> THEN <<"/">> ELSE JoinSegments(segments)

\* path.resolve of an absolute path
resolve(p) == PathOf(NormalizeSegments(SplitPath(p, <<>>), <<>>))

\* path.join(outputDir, sanitizedFilename), both non-empty
join(a, b) == a \o <<"/">> \o b

\* path.dirname of a resolved path
dirname(p) ==
    LET segments == NormalizeSegments(SplitPath(p, <<>>), <<>>)
    IN  IF segments = <<>> THEN <<"/">>
        ELSE PathOf(SubSeq(segments, 1, Len(segments) - 1))

\* String.prototype.startsWith
startsWith(s, prefix) == Len(prefix) <= Len(s) /\ SubSeq(s, 1, Len(prefix)) = prefix

InitSave ==
    /\ IdleTextAndAnimator
    /\ slack = NoSlack /\ unique = NoUnique
    /\ \E filename \in Filenames, outputDir \in OutputDirs :
          save = [pc |-> "start", filename |-> filename, outputDir |-> outputDir,
                  sanitizedFilename |-> <<>>, validatedPath |-> <<>>,
                  created |-> {}, written |-> {}, error |-> "none"]

\* saveToFile, lines 50-56: the filename is sanitized; an empty result is refused
SaveSanitize ==
    /\ save.pc = "start"
    /\ LET sanitized == sanitizeFilename(save.filename)
       IN  save' = IF sanitized = <<>>
                   THEN [save EXCEPT !.pc = "thrown", !.error = "Invalid filename"]
                   ELSE [save EXCEPT !.pc = "validate", !.sanitizedFilename = sanitized]
    /\ UNCHANGED <<textVars, animVars, slack, unique>>

\* validateOutputPath when fs.access(dir) succeeds: the directory exists
SaveDirExists ==
    /\ save.pc = "validate"
    /\ save' = [save EXCEPT !.pc = "check",
                            !.validatedPath = resolve(join(save.outputDir, save.sanitizedFilename))]
    /\ UNCHANGED <<textVars, animVars, slack, unique>>

\* validateOutputPath when fs.access(dir) fails: the directory is created
SaveMkdir ==
    /\ save.pc = "validate"
    /\ LET absolutePath == resolve(join(save.outputDir, save.sanitizedFilename))
       IN  /\ dirname(absolutePath) # <<"/">>
           /\ save' = [save EXCEPT !.pc = "check",
                                   !.validatedPath = absolutePath,
                                   !.created = {dirname(absolutePath)}]
    /\ UNCHANGED <<textVars, animVars, slack, unique>>

\* saveToFile, lines 59-67: the startsWith test, then the file is written and
\* its path returned
SaveWrite ==
    /\ save.pc = "check"
    /\ save' = IF ~startsWith(save.validatedPath, resolve(save.outputDir))
               THEN [save EXCEPT !.pc = "thrown",
                                 !.error = "Invalid output path: path traversal detected"]
               ELSE [save EXCEPT !.pc = "returned", !.written = {save.validatedPath}]
    /\ UNCHANGED <<textVars, animVars, slack, unique>>

NextSave ==
    \/ SaveSanitize
    \/ SaveDirExists
    \/ SaveMkdir
    \/ SaveWrite

SaveSpec == InitSave /\ [][NextSave]_vars

(* Properties of saveToFile, checked under SaveSpec *)

\* path p is directory dir or lies below it
Inside(p, dir) == p = dir \/ startsWith(p, dir \o <<"/">>)

HasDotDot(s) == \E k \in 1..(Len(s) - 1) : s[k] = "." /\ s[k + 1] = "."

\* C11: saveToFile never writes outside outputDir: no directory is created and
\* no file written outside resolve(outputDir), whether the call fails or
\* returns, the path returned lies inside it (a sibling directory whose name
\* only starts like outputDir's is not accepted), and the sanitized filename
\* never contains "..".
C11_NeverWritesOutsideOutputDir ==
    save.pc \in {"validate", "check", "returned", "thrown"} =>
        /\ ~HasDotDot(save.sanitizedFilename)
        /\ \A d \in save.created : Inside(d, resolve(save.outputDir))
        /\ \A f \in save.written : Inside(f, resolve(save.outputDir))

----------------------------------------------------------------------------
(* toSlackFormat of src/src/slack.ts. The function looks at no character   *)
(* but the newline, so a string is modelled as the sequence of the lengths *)
(* of the pieces between its newlines, which is its split('\n'): '' is     *)
(* <<0>>, 'ab' is <<2>>, 'ab\n\ncde' is <<2, 0, 3>>.                       *)

EmptyString == <<0>>
NewlineString == <<0, 0>>

RECURSIVE SumOf(_)
SumOf(s) == IF s = <<>> THEN 0 ELSE Head(s) + SumOf(Tail(s))

\* s.length
length(s) == SumOf(s) + Len(s) - 1

\* a + b
Concat(a, b) == SubSeq(a, 1, Len(a) - 1) \o <<a[Len(a)] + b[1]>> \o Tail(b)

\* a string in a condition: only '' is false
Truthy(s) == s # EmptyString

formatLineForSlack(line) == line

\* lengths of the lines of a banner: empty, short, and about half and all of the limit
LineLengths == {0, 1, 1499, 1500, 2999, 3000, 3001}

SlackTexts == UNION {[1..n -> LineLengths] : n \in 1..MaxSlackLines}

InitSlack ==
    /\ IdleTextAndAnimator
    /\ save = NoSave /\ unique = NoUnique
    /\ \E text \in SlackTexts :
          slack = [pc |-> "loop", text |-> text, next |-> 1,
                   currentText |-> EmptyString, blocks |-> <<>>]

\* one iteration of `for (const line of lines)`
SlackLine ==
    /\ slack.pc = "loop"
    /\ slack.next <= Len(slack.text)
    /\ LET formattedLine == formatLineForSlack(<<slack.text[slack.next]>>)
           currentText == slack.currentText
       IN  slack' =
             IF length(currentText) + length(formattedLine) + 1 > SLACK_TEXT_LIMIT
             THEN [slack EXCEPT !.next = @ + 1,
                                !.blocks = IF Truthy(currentText)
                                           THEN Append(@, currentText) ELSE @,
                                !.currentText = formattedLine]
             ELSE [slack EXCEPT !.next = @ + 1,
                                !.currentText =
                                    Concat(currentText,
                                           Concat(IF Truthy(currentText)
                                                  THEN NewlineString ELSE EmptyString,
                                                  formattedLine))]
    /\ UNCHANGED <<textVars, animVars, save, unique>>

\* after the loop: the remaining text is pushed and the message returned
SlackReturn ==
    /\ slack.pc = "loop"
    /\ slack.next > Len(slack.text)
    /\ slack' = [slack EXCEPT !.pc = "returned",
                              !.blocks = IF Truthy(slack.currentText)
                                         THEN Append(@, slack.currentText) ELSE @]
    /\ UNCHANGED <<textVars, animVars, save, unique>>

NextSlack ==
    \/ SlackLine
    \/ SlackReturn

SlackSpec == InitSlack /\ [][NextSlack]_vars

(* Properties of toSlackFormat, checked under SlackSpec *)

\* the lines of the blocks' texts, block after block
RECURSIVE BlockLines(_)
BlockLines(blocks) ==
    IF blocks = <<>> THEN <<>> ELSE Head(blocks) \o BlockLines(Tail(blocks))

\* C13: every block of the message toSlackFormat returns has a text of at most
\* SLACK_TEXT_LIMIT (3000) characters, and the blocks' texts split on newline,
\* taken in order, are exactly the lines of result.text (none dropped, merged
\* or duplicated).
C13_BlocksWithinLimitAndComplete ==
    slack.pc = "returned" =>
        /\ \A b \in 1..Len(slack.blocks) : length(slack.blocks[b]) <= SLACK_TEXT_LIMIT
        /\ BlockLines(slack.blocks) = slack.text

(* getUniqueFilename (output.ts): probing for a free file name *)

BaseNames == {<<"o">>, <<".", "o">>, <<"o", "<">>}
Extensions == {"txt", "json"}

\* `${sanitizedBase}.${extension}`
PlainName(sanitizedBase, extension) == <<sanitizedBase, ".", extension>>

\* `${sanitizedBase}-${counter}.${extension}`
NumberedName(sanitizedBase, counter, extension) ==
    <<sanitizedBase, "-", counter, ".", extension>>

NoProbe == <<>>

InitUnique ==
    /\ IdleTextAndAnimator
    /\ save = NoSave /\ slack = NoSlack
    /\ \E baseName \in BaseNames, extension \in Extensions :
          LET sanitizedBase == sanitizeFilename(baseName)
          IN  unique = [pc |-> "probe", baseName |-> baseName,
                        sanitizedBase |-> sanitizedBase, extension |-> extension,
                        filename |-> PlainName(sanitizedBase, extension),
                        counter |-> 1, probes |-> 0,
                        lastProbed |-> NoProbe, lastExists |-> FALSE]

\* fs.access resolves: the file exists, the next numbered name is taken and the
\* counter advanced; the throw of the safety limit happens inside the try block,
\* so the catch clause of the same try receives it and returns the new name
UniqueProbeExists ==
    /\ unique.pc = "probe"
    /\ LET filename == NumberedName(unique.sanitizedBase, unique.counter,
                                    unique.extension)
           counter == unique.counter + 1
       IN  unique' = [unique EXCEPT !.filename = filename,
                                    !.counter = counter,
                                    !.probes = @ + 1,
                                    !.lastProbed = unique.filename,
                                    !.lastExists = TRUE,
                                    !.pc = IF counter > SafetyLimit
                                           THEN "returned" ELSE "probe"]
    /\ UNCHANGED <<textVars, animVars, save, slack>>

\* fs.access rejects: the catch clause returns the name just probed
UniqueProbeMissing ==
    /\ unique.pc = "probe"
    /\ unique' = [unique EXCEPT !.probes = @ + 1,
                                !.lastProbed = unique.filename,
                                !.lastExists = FALSE,
                                !.pc = "returned"]
    /\ UNCHANGED <<textVars, animVars, save, slack>>

NextUnique ==
    \/ UniqueProbeExists
    \/ UniqueProbeMissing

UniqueSpec == InitUnique /\ [][NextUnique]_vars

(* Properties of getUniqueFilename, checked under UniqueSpec *)

\* C14: a file name getUniqueFilename returns is one that was probed and found
\* not to exist, and once the counter has passed the safety limit (every probed
\* candidate exists) the call fails with 'Too many files with same name'
\* instead of returning a name.
C14_ReturnedNameWasFoundMissing ==
    /\ unique.pc = "returned" =>
           /\ unique.lastProbed = unique.filename
           /\ ~unique.lastExists
    /\ (unique.pc # "unused" /\ unique.counter > SafetyLimit) =>
           unique.pc = "failed"

====
